---- MODULE Spec2Model ----
(***************************************************************************)
(* Model of src/src/utils/apiclient.js: the APIClient singleton that       *)
(* fetches aircraft positions from ADSB.lol (primary) and OpenSky          *)
(* (rate-governed fallback), schedules from AviationStack, and assembles   *)
(* the getAllFlights envelope.                                             *)
(*                                                                         *)
(* Times are milliseconds (Date.now()).  Coordinates are hundredths of a   *)
(* degree (50.05 deg = 5005), so the range tests of the code read          *)
(* 9000 and 18000.  Converted altitudes are 1e-5 ft (x * 3.28084 is        *)
(* x * 328084).  An optional JSON number is <<>> when the field is         *)
(* missing and <<n>> when it holds n.                                      *)
(***************************************************************************)
EXTENDS Integers, Sequences, FiniteSets, TLC

(* ------------------------------ bounds -------------------------------- *)

\* Date.now() when the first operation starts (any value >= the interval:
\* the real clock is the Unix epoch time).
StartClock == 10000
\* The clock stops advancing here.
MaxClock == 60000
\* Longest provider batch.
MaxBatch == 2
\* The clock advances in steps of this many milliseconds.
TickMs == 5000

(* ------------------------- program constants -------------------------- *)

openSkyMinInterval == 10000
DefaultRetryAfterSeconds == 60
DisableThresholdSeconds == 300
FeetPerMeterE5 == 328084
OnGroundThreshold == 100

(* ------------------------- JavaScript values -------------------------- *)

Missing == <<>>

Num(n) == <<n>>

\* JavaScript truthiness of an optional number: undefined and 0 are falsy.
Truthy(x) == x # Missing /\ x[1] # 0

\* JavaScript `x < n` on an optional number: undefined < n is false.
LessThan(x, n) == x # Missing /\ x[1] < n

Abs(n) == IF n < 0 THEN -n ELSE n

\* Array.prototype.map
MapSeq(s, F(_)) == [i \in 1..Len(s) |-> F(s[i])]

\* The outcome of a block of code: a value, or an exception thrown.
\* caught tells that the value is the [] of a catch block.
Ok(v) == [thrown |-> FALSE, value |-> v, caught |-> FALSE]

Thrown == [thrown |-> TRUE, value |-> <<>>, caught |-> FALSE]

(* ---------------- ADSB.lol: normalisation (lines 91-134) --------------- *)

\* A raw aircraft entry of the provider's array.  obj = FALSE is a null
\* entry; flight is "missing", "string" or "number" (a wrongly-typed value).
Aircraft(flight, lat, lon, alt_baro, alt_geom) ==
    [obj |-> TRUE, flight |-> flight, lat |-> lat, lon |-> lon,
     alt_baro |-> alt_baro, alt_geom |-> alt_geom]

NullEntry ==
    [obj |-> FALSE, flight |-> "missing", lat |-> Missing, lon |-> Missing,
     alt_baro |-> Missing, alt_geom |-> Missing]

\* The filter callback: drop entries without coordinates or out of range.
adsbFilter(aircraft) ==
    IF ~Truthy(aircraft.lat) \/ ~Truthy(aircraft.lon) THEN FALSE
    ELSE IF Abs(aircraft.lat[1]) > 9000 \/ Abs(aircraft.lon[1]) > 18000 THEN FALSE
    ELSE TRUE

adsbAltitude(aircraft) ==
    IF Truthy(aircraft.alt_baro) THEN aircraft.alt_baro[1] * FeetPerMeterE5
    ELSE IF Truthy(aircraft.alt_geom) THEN aircraft.alt_geom[1] * FeetPerMeterE5
    ELSE 0

adsbOnGround(aircraft) ==
    \/ LessThan(aircraft.alt_baro, OnGroundThreshold)
    \/ LessThan(aircraft.alt_geom, OnGroundThreshold)

\* The map callback: one emitted position record.
adsbMap(aircraft) ==
    [callsign |-> IF aircraft.flight = "missing" THEN "UNKNOWN" ELSE "flight",
     longitude |-> aircraft.lon,
     latitude |-> aircraft.lat,
     altitude |-> adsbAltitude(aircraft),
     on_ground |-> adsbOnGround(aircraft)]

\* filter(...).map(...) over the batch.  Reading .lat of a null entry and
\* calling .trim() on a non-string flight throw a TypeError.
adsbTransform(aircraftData) ==
    IF \E i \in 1..Len(aircraftData) : ~aircraftData[i].obj THEN Thrown
    ELSE LET kept == SelectSeq(aircraftData, adsbFilter) IN
         IF \E i \in 1..Len(kept) : kept[i].flight = "number" THEN Thrown
         ELSE Ok(MapSeq(kept, adsbMap))

\* The body of the ADSB.lol adapter after a response arrived.  body.kind is
\* "array" (response.data is the array), "ac" (it is in response.data.ac),
\* "object" (an object without ac) or "null" (response.data is null).
adsbProcess(body) ==
    IF body.kind = "null" THEN Thrown
    ELSE LET aircraftData == IF body.kind \in {"array", "ac"} THEN body.list ELSE <<>> IN
         IF Len(aircraftData) = 0 THEN Ok(<<>>) ELSE adsbTransform(aircraftData)

(* ---------------- OpenSky: normalisation (lines 211-237) --------------- *)

\* A state vector of response.data.states.  obj = FALSE is a null entry;
\* callsign is state[1] ("missing", "string" or "number"), lon state[5],
\* lat state[6], baro_altitude state[7], on_ground state[8].
StateVector(callsign, lon, lat, baro_altitude, on_ground) ==
    [obj |-> TRUE, callsign |-> callsign, lon |-> lon, lat |-> lat,
     baro_altitude |-> baro_altitude, on_ground |-> on_ground]

NullState ==
    [obj |-> FALSE, callsign |-> "missing", lon |-> Missing, lat |-> Missing,
     baro_altitude |-> Missing, on_ground |-> FALSE]

\* The map callback: longitude and latitude are passed through unchecked.
openSkyMap(state) ==
    [callsign |-> IF state.callsign = "missing" THEN "UNKNOWN" ELSE "flight",
     longitude |-> state.lon,
     latitude |-> state.lat,
     altitude |-> IF Truthy(state.baro_altitude)
                  THEN state.baro_altitude[1] * FeetPerMeterE5 ELSE 0,
     on_ground |-> state.on_ground]

\* states.map(...): indexing a null entry and calling .trim() on a
\* non-string callsign throw a TypeError.
openSkyTransform(states) ==
    IF \E i \in 1..Len(states) : ~states[i].obj \/ states[i].callsign = "number"
    THEN Thrown
    ELSE Ok(MapSeq(states, openSkyMap))

\* The body of the OpenSky adapter after a 2xx response.  body.kind is
\* "states" (data.states is an array), "nostates" (data.states is missing or
\* null), "null" (response.data is empty) or "notarray" (data.states is a
\* truthy value without .map).
openSkyProcess(body) ==
    IF body.kind \in {"null", "nostates"} THEN Ok(<<>>)
    ELSE IF body.kind = "notarray" THEN Thrown
    ELSE openSkyTransform(body.list)

(* ------------- AviationStack: normalisation (lines 297-333) ------------ *)

\* An entry of response.data.data.  flight is <<n>> when the nested flight
\* object is there (n stands for its iata code); airline, departure,
\* arrival and aircraft tell whether that nested object is there.
ScheduleEntry(flight, airline, departure, arrival, aircraft) ==
    [obj |-> TRUE, flight |-> flight, airline |-> airline,
     departure |-> departure, arrival |-> arrival, aircraft |-> aircraft]

NullSchedule ==
    [obj |-> FALSE, flight |-> Missing, airline |-> FALSE,
     departure |-> FALSE, arrival |-> FALSE, aircraft |-> FALSE]

\* Only flight.aircraft is read with ?. ; the other nested objects are
\* dereferenced directly.
aviationStackThrows(flight) ==
    \/ ~flight.obj
    \/ flight.flight = Missing
    \/ ~flight.airline
    \/ ~flight.departure
    \/ ~flight.arrival

aviationStackMap(flight) ==
    [flightNumber |-> flight.flight[1], registration |-> flight.aircraft]

aviationStackTransform(data) ==
    IF \E i \in 1..Len(data) : aviationStackThrows(data[i]) THEN Thrown
    ELSE Ok(MapSeq(data, aviationStackMap))

\* body.kind is "data" (response.data.data is the array), "nodata" or "null".
aviationStackProcess(body) ==
    IF body.kind \in {"null", "nodata"} THEN Ok(<<>>)
    ELSE aviationStackTransform(body.list)

\* Mutant: the catch block rethrows.
catchRethrow(outcome) == outcome

\* try { ... } catch (error) { return []; }: what every adapter does with
\* an exception of its body.
catchReturnEmpty(outcome) ==
    IF outcome.thrown THEN [thrown |-> FALSE, value |-> <<>>, caught |-> TRUE]
    ELSE outcome

(* ------------------------------- state -------------------------------- *)

VARIABLES
    now,                  \* Date.now()
    useAdsbLol,           \* this.useAdsbLol
    aviationStackKey,     \* whether this.aviationStackKey is configured
    lastOpenSkyCall,      \* this.lastOpenSkyCall
    openSkyRetryAfter,    \* this.openSkyRetryAfter
    openSkyDisabledUntil, \* this.openSkyDisabledUntil
    op,                   \* the method the caller invoked ("none" when idle)
    pc,                   \* "idle", the await the invocation is suspended at, or "done"
    endpoint,             \* getAdsbLolFlights: index of the endpoint awaited
    callNow,              \* getOpenSkyFlights: its local `now`
    livePositions,        \* getAllFlights: its local livePositions
    returned,             \* what the invocation returned (or that it threw)
    callLog,              \* the adapter invocations of this invocation, in order
    received,             \* the latest response, and the callLog entry it came to
    gate,                 \* the latest gate decision since the last OpenSky response
    last429,              \* the last OpenSky response, when it was a 429
    requestedAt,          \* when the latest OpenSky request was started (0: never)
    second                \* the locals of a second, interleaved invocation

vars == <<now, useAdsbLol, aviationStackKey, lastOpenSkyCall, openSkyRetryAfter,
          openSkyDisabledUntil, op, pc, endpoint, callNow, livePositions,
          returned, callLog, received, gate, last429, requestedAt,
          second>>

\* The state as one record, for the operators that model the methods.
State ==
    [now |-> now, useAdsbLol |-> useAdsbLol, aviationStackKey |-> aviationStackKey,
     lastOpenSkyCall |-> lastOpenSkyCall, openSkyRetryAfter |-> openSkyRetryAfter,
     openSkyDisabledUntil |-> openSkyDisabledUntil, op |-> op, pc |-> pc,
     endpoint |-> endpoint, callNow |-> callNow, livePositions |-> livePositions,
     returned |-> returned, callLog |-> callLog, received |-> received,
     gate |-> gate, last429 |-> last429, requestedAt |-> requestedAt,
     second |-> second]

Becomes(s) ==
    /\ now' = s.now
    /\ useAdsbLol' = s.useAdsbLol
    /\ aviationStackKey' = s.aviationStackKey
    /\ lastOpenSkyCall' = s.lastOpenSkyCall
    /\ openSkyRetryAfter' = s.openSkyRetryAfter
    /\ openSkyDisabledUntil' = s.openSkyDisabledUntil
    /\ op' = s.op
    /\ pc' = s.pc
    /\ endpoint' = s.endpoint
    /\ callNow' = s.callNow
    /\ livePositions' = s.livePositions
    /\ returned' = s.returned
    /\ callLog' = s.callLog
    /\ received' = s.received
    /\ gate' = s.gate
    /\ last429' = s.last429
    /\ requestedAt' = s.requestedAt
    /\ second' = s.second

NoGate == [at |-> 0, verdict |-> "none"]
No429 == [at |-> 0, seconds |-> -1]

NoBody == [kind |-> "null", list |-> <<>>]

\* No second invocation is running.
NoSecond ==
    [op |-> "none", pc |-> "idle", callNow |-> 0, returned |-> Ok(<<>>),
     callLog |-> <<>>, overlapped |-> FALSE]

\* Bookkeeping: an adapter is entered, issues a request, receives a 2xx
\* body, returns.
Entered(s, fn) ==
    [s EXCEPT !.callLog = Append(@, [fn |-> fn, returned |-> FALSE, threw |-> FALSE,
                                     caught |-> FALSE, value |-> <<>>,
                                     requests |-> <<>>])]

NothingReceived == [by |-> 0, status |-> 0, body |-> NoBody, retryAfter |-> Missing]

Received(s, resp) ==
    [s EXCEPT !.received = [by |-> Len(s.callLog), status |-> resp.status,
                            body |-> resp.body, retryAfter |-> Missing]]

\* Mutant: every request is sent a second time.
RequestedTwice(s, ep) ==
    [s EXCEPT !.callLog[Len(s.callLog)].requests = Append(Append(@, ep), ep)]

Requested(s, ep) == [s EXCEPT !.callLog[Len(s.callLog)].requests = Append(@, ep)]

Left(s, outcome) ==
    [s EXCEPT !.callLog[Len(s.callLog)].returned = TRUE,
              !.callLog[Len(s.callLog)].threw = outcome.thrown,
              !.callLog[Len(s.callLog)].caught = outcome.caught,
              !.callLog[Len(s.callLog)].value = outcome.value]

\* The top-level invocation is over.
Done(s, outcome) == [s EXCEPT !.pc = "done", !.returned = outcome]

(* ------------------ getAllFlights, tail (lines 361-376) ---------------- *)

\* The source field of the envelope (line 370).
envelopeSource(positions, preferAdsbLol) ==
    IF Len(positions) > 0
    THEN (IF preferAdsbLol THEN "ADSB.lol" ELSE "OpenSky")
    ELSE "None"

\* Mutant: both totals count the positions.
envelopeTotalsFromPositions(positions, aviationStackFlights, preferAdsbLol) ==
    [livePositions |-> positions,
     schedules |-> aviationStackFlights,
     totalLive |-> Len(positions),
     totalScheduled |-> Len(positions),
     source |-> envelopeSource(positions, preferAdsbLol)]

\* The returned envelope (lines 364-371); timestamp is left out.
envelope(positions, aviationStackFlights, preferAdsbLol) ==
    [livePositions |-> positions,
     schedules |-> aviationStackFlights,
     totalLive |-> Len(positions),
     totalScheduled |-> Len(aviationStackFlights),
     source |-> envelopeSource(positions, preferAdsbLol)]

\* An adapter threw into getAllFlights: catch, log, rethrow (lines 372-375).
getAllFlights_rethrow(s) == Done(s, Thrown)

(* --------------- getAviationStackFlights (lines 264-338) --------------- *)

\* The adapter returns: to getAllFlights at line 362, or to the caller.
aviationStackReturn(s, outcome) ==
    LET s1 == [Left(s, outcome) EXCEPT !.pc = "idle"] IN
    IF s.op = "getAllFlights"
    THEN IF outcome.thrown THEN getAllFlights_rethrow(s1)
         ELSE Done(s1, Ok(envelope(s1.livePositions, outcome.value, s1.useAdsbLol)))
    ELSE Done(s1, outcome)

\* Mutant: the credential is never found missing.
aviationStackKeyUnchecked(key) == FALSE

\* The credential test of line 266: true when the adapter must give up.
aviationStackKeyMissing(key) == ~key

\* From the call to the await of line 292.
getAviationStackFlights_enter(s) ==
    LET s1 == Entered(s, "getAviationStackFlights") IN
    IF aviationStackKeyMissing(s.aviationStackKey)
    THEN aviationStackReturn(s1, Ok(<<>>))
    ELSE [Requested(s1, 1) EXCEPT !.pc = "aviationstack"]

\* From the await of line 292 to the return.  Any failure of the request
\* (timeout, no connection, non-2xx) is an exception of axios.get.
getAviationStackFlights_resume(s, resp) ==
    LET s0 == Received(s, resp) IN
    IF resp.status # 200 THEN aviationStackReturn(s0, catchReturnEmpty(Thrown))
    ELSE aviationStackReturn(s0, catchReturnEmpty(aviationStackProcess(resp.body)))

(* ----------------- getAllFlights, middle (lines 352-362) --------------- *)

\* Mutant: the result of the position fetch is not kept.
getAllFlights_schedulesDropped(s, positions) ==
    getAviationStackFlights_enter([s EXCEPT !.livePositions = <<>>])

\* The position fetch is over: livePositions is assigned and the schedule
\* adapter is called.
getAllFlights_schedules(s, positions) ==
    getAviationStackFlights_enter([s EXCEPT !.livePositions = positions])

(* ------------------ getOpenSkyFlights (lines 152-258) ------------------ *)

openSkyReturn(s, outcome) ==
    LET s1 == [Left(s, outcome) EXCEPT !.pc = "idle"] IN
    IF s.op = "getAllFlights"
    THEN IF outcome.thrown THEN getAllFlights_rethrow(s1)
         ELSE getAllFlights_schedules(s1, outcome.value)
    ELSE Done(s1, outcome)

\* Mutant: the minimum interval is not checked.
openSkyGateNoInterval(t, disabledUntil, retryAfter, lastCall) ==
    IF t < disabledUntil THEN "disabled"
    ELSE IF t < retryAfter THEN "retry"
    ELSE "pass"

\* Mutant: a circuit once opened stays open.
openSkyGateLatched(t, disabledUntil, retryAfter, lastCall) ==
    IF t < disabledUntil \/ disabledUntil > 0 THEN "disabled"
    ELSE IF t < retryAfter THEN "retry"
    ELSE IF t - lastCall < openSkyMinInterval THEN "interval"
    ELSE "pass"

\* The three checks of lines 156-174, in order.
openSkyGate(t, disabledUntil, retryAfter, lastCall) ==
    IF t < disabledUntil THEN "disabled"
    ELSE IF t < retryAfter THEN "retry"
    ELSE IF t - lastCall < openSkyMinInterval THEN "interval"
    ELSE "pass"

\* Mutant: the call time is recorded as soon as the gate is passed.
getOpenSkyFlights_enterStamped(s) ==
    LET verdict == openSkyGate(s.now, s.openSkyDisabledUntil, s.openSkyRetryAfter,
                               s.lastOpenSkyCall)
        s1 == [Entered(s, "getOpenSkyFlights") EXCEPT
                  !.callNow = s.now,
                  !.gate = [at |-> s.now, verdict |-> verdict]]
    IN  IF verdict # "pass" THEN openSkyReturn(s1, Ok(<<>>))
        ELSE [Requested(s1, 1) EXCEPT !.pc = "opensky", !.requestedAt = s.now,
                                      !.lastOpenSkyCall = s.now]

\* From the call to the await of line 208.
getOpenSkyFlights_enter(s) ==
    LET verdict == openSkyGate(s.now, s.openSkyDisabledUntil, s.openSkyRetryAfter,
                               s.lastOpenSkyCall)
        s1 == [Entered(s, "getOpenSkyFlights") EXCEPT
                  !.callNow = s.now,
                  !.gate = [at |-> s.now, verdict |-> verdict]]
    IN  IF verdict # "pass" THEN openSkyReturn(s1, Ok(<<>>))
        ELSE [Requested(s1, 1) EXCEPT !.pc = "opensky", !.requestedAt = s.now]

\* parseInt(headers['x-rate-limit-retry-after-seconds'] || '60') (line 241).
retryAfterSeconds(header) ==
    IF header = Missing THEN DefaultRetryAfterSeconds ELSE header[1]

\* Mutant: the seconds are not converted to milliseconds.
retryAfterUntilNoMs(t, seconds) == t + seconds

\* Line 242.
retryAfterUntil(t, seconds) == t + seconds * 1000

\* Mutant: the threshold is taken in milliseconds.
disableForMs(seconds) == seconds > DisableThresholdSeconds * 1000

\* Mutant: the threshold itself disables.
disableForInclusive(seconds) == seconds >= DisableThresholdSeconds

\* Line 248.
disableFor(seconds) == seconds > DisableThresholdSeconds

\* Mutant: a long wait opens the circuit without setting the retry time.
openSky429CircuitOnly(s, header) ==
    LET seconds == retryAfterSeconds(header)
        until == retryAfterUntil(s.now, seconds)
    IN  [s EXCEPT !.openSkyRetryAfter = IF disableFor(seconds) THEN @ ELSE until,
                  !.openSkyDisabledUntil = IF disableFor(seconds) THEN until ELSE @,
                  !.last429 = [at |-> s.now, seconds |-> seconds]]

\* The catch block on a 429 (lines 240-251).
openSky429(s, header) ==
    LET seconds == retryAfterSeconds(header)
        until == retryAfterUntil(s.now, seconds)
    IN  [s EXCEPT !.openSkyRetryAfter = until,
                  !.openSkyDisabledUntil = IF disableFor(seconds) THEN until ELSE @,
                  !.last429 = [at |-> s.now, seconds |-> seconds]]

\* From the await of line 208 to the return.
getOpenSkyFlights_resume(s, resp) ==
    LET s0 == [Received(s, resp) EXCEPT !.received.retryAfter = resp.retryAfter,
                                        !.gate = NoGate, !.last429 = No429] IN
    IF resp.status = 200
    THEN LET s1 == [s0 EXCEPT !.lastOpenSkyCall = s.callNow] IN
         openSkyReturn(s1, catchReturnEmpty(openSkyProcess(resp.body)))
    ELSE IF resp.status = 429
    THEN openSkyReturn(openSky429(s0, resp.retryAfter), Ok(<<>>))
    ELSE openSkyReturn(s0, catchReturnEmpty(Thrown))

(* ------------------ getAdsbLolFlights (lines 49-146) ------------------- *)

\* The candidate endpoints of lines 56-59.
NumEndpoints == 2

\* Mutant: the fallback is tried whatever the primary gave.
fallbackAlways(positions) == Len(positions) >= 0

\* Line 352: the fallback is tried when the primary gave nothing.
fallbackNeeded(positions) == Len(positions) = 0

adsbReturn(s, outcome) ==
    LET s1 == [Left(s, outcome) EXCEPT !.pc = "idle", !.endpoint = 0] IN
    IF s.op = "getAllFlights"
    THEN IF outcome.thrown THEN getAllFlights_rethrow(s1)
         ELSE IF fallbackNeeded(outcome.value) THEN getOpenSkyFlights_enter(s1)
         ELSE getAllFlights_schedules(s1, outcome.value)
    ELSE Done(s1, outcome)

\* Mutant: the unlimited feed's adapter records its call in the governor.
getAdsbLolFlights_enterStamped(s) ==
    [Requested(Entered(s, "getAdsbLolFlights"), 1) EXCEPT
        !.pc = "adsb", !.endpoint = 1, !.lastOpenSkyCall = s.now]

\* From the call to the first await of line 70.
getAdsbLolFlights_enter(s) ==
    [Requested(Entered(s, "getAdsbLolFlights"), 1) EXCEPT !.pc = "adsb", !.endpoint = 1]

\* Mutant: the adapter gives up at the first endpoint that fails.
getAdsbLolFlights_resumeFirstOnly(s, resp) ==
    LET s0 == Received(s, resp) IN
    IF resp.status # 200 THEN adsbReturn(s0, Ok(<<>>))
    ELSE adsbReturn(s0, catchReturnEmpty(adsbProcess(resp.body)))

\* From an await of line 70 to the next one, or to the return.
getAdsbLolFlights_resume(s, resp) ==
    LET s0 == Received(s, resp) IN
    IF resp.status # 200
    THEN IF s.endpoint < NumEndpoints
         THEN [Requested(s0, s.endpoint + 1) EXCEPT !.endpoint = s.endpoint + 1]
         ELSE adsbReturn(s0, Ok(<<>>))
    ELSE adsbReturn(s0, catchReturnEmpty(adsbProcess(resp.body)))

(* --------- calculateDistance, isInAirportZone (lines 381-409) ---------- *)

\* this.airportRadius, in km (line 29, the default).
airportRadius == 10

\* Values of R * c in km.  The Haversine arithmetic of lines 382-391 is not
\* modelled: the distance is any of these, whatever the arguments.
Distances == {10, 11}

\* Synchronous: the method returns in the step that calls it.
calculateDistance(s, d) == Done(s, Ok(Num(d)))

\* Lines 402-408, with d the value calculateDistance returned.
isInAirportZone(s, d) == Done(s, Ok(<<d <= airportRadius>>))

(* ------------------ getAllFlights, head (lines 343-359) ---------------- *)

\* Mutant: the primary adapter is called whatever the configuration.
getAllFlights_enterPrimaryAlways(s) ==
    getAdsbLolFlights_enter([s EXCEPT !.livePositions = <<>>])

getAllFlights_enter(s) ==
    LET s1 == [s EXCEPT !.livePositions = <<>>] IN
    IF s.useAdsbLol THEN getAdsbLolFlights_enter(s1) ELSE getOpenSkyFlights_enter(s1)

(* ------------------------- provider responses ------------------------- *)

BoundedSeq(S, n) == UNION {[1..k -> S] : k \in 0..n}

\* Sample ADSB.lol entries: the aircraft of scenario 1, one on the equator,
\* one out of range, one without a latitude, one at barometric altitude 0,
\* one low by its geometric altitude, one with a wrongly-typed flight.
AdsbEntries ==
    {Aircraft("string", Num(5005), Num(860), Num(300), Missing),
     Aircraft("string", Num(0), Num(860), Num(300), Missing),
     Aircraft("missing", Num(9100), Num(860), Num(300), Missing),
     Aircraft("string", Missing, Num(860), Num(300), Missing),
     Aircraft("string", Num(5005), Num(860), Num(0), Num(200)),
     Aircraft("missing", Num(5005), Num(-860), Missing, Num(50)),
     Aircraft("number", Num(5005), Num(860), Num(300), Missing),
     NullEntry}

AdsbBodies ==
    {[kind |-> k, list |-> l] : k \in {"array", "ac"}, l \in BoundedSeq(AdsbEntries, MaxBatch)}
    \cup {[kind |-> k, list |-> <<>>] : k \in {"object", "null"}}

\* Sample OpenSky state vectors: one with a position, one without (null
\* longitude and latitude), one out of range, one with a wrongly-typed
\* callsign.
OpenSkyStates ==
    {StateVector("string", Num(860), Num(5005), Num(300), FALSE),
     StateVector("missing", Missing, Missing, Missing, TRUE),
     StateVector("string", Num(860), Num(9500), Num(300), FALSE),
     StateVector("number", Num(860), Num(5005), Num(300), FALSE),
     NullState}

OpenSkyBodies ==
    {[kind |-> "states", list |-> l] : l \in BoundedSeq(OpenSkyStates, MaxBatch)}
    \cup {[kind |-> k, list |-> <<>>] : k \in {"nostates", "null", "notarray"}}

\* x-rate-limit-retry-after-seconds of a 429.
RetryAfterHeaders == {Missing, Num(30), Num(300), Num(301), Num(600)}

\* Sample AviationStack entries: complete, without aircraft, without flight,
\* without departure.
ScheduleEntries ==
    {ScheduleEntry(Num(1), TRUE, TRUE, TRUE, TRUE),
     ScheduleEntry(Num(2), TRUE, TRUE, TRUE, FALSE),
     ScheduleEntry(Missing, TRUE, TRUE, TRUE, TRUE),
     ScheduleEntry(Num(3), TRUE, FALSE, TRUE, TRUE),
     NullSchedule}

AviationStackBodies ==
    {[kind |-> "data", list |-> l] : l \in BoundedSeq(ScheduleEntries, MaxBatch)}
    \cup {[kind |-> k, list |-> <<>>] : k \in {"nodata", "null"}}

\* A few of these bodies, for the behaviours in which time passes: an empty
\* batch, a well-formed one, and one with a malformed entry.
FewAdsbBodies ==
    {[kind |-> "array", list |-> <<>>],
     [kind |-> "ac", list |-> <<Aircraft("string", Num(5005), Num(860), Num(300), Missing)>>],
     [kind |-> "array", list |-> <<Aircraft("string", Num(5005), Num(860), Num(300), Missing),
                                   NullEntry>>]}

FewOpenSkyBodies ==
    {[kind |-> "nostates", list |-> <<>>],
     [kind |-> "states", list |-> <<StateVector("string", Num(860), Num(5005), Num(300), FALSE)>>],
     [kind |-> "states", list |-> <<StateVector("string", Num(860), Num(5005), Num(300), FALSE),
                                    NullState>>]}

FewAviationStackBodies ==
    {[kind |-> "nodata", list |-> <<>>],
     [kind |-> "data", list |-> <<ScheduleEntry(Num(1), TRUE, TRUE, TRUE, TRUE)>>],
     [kind |-> "data", list |-> <<ScheduleEntry(Num(1), TRUE, TRUE, TRUE, TRUE),
                                  ScheduleEntry(Missing, TRUE, TRUE, TRUE, TRUE)>>]}

\* A request that fails: no response (timeout, connection error, status 0)
\* or a non-2xx status.
FailureStatuses == {0, 500}

Responses(bodies) ==
    {[status |-> 200, body |-> b, retryAfter |-> Missing] : b \in bodies}
    \cup {[status |-> st, body |-> NoBody, retryAfter |-> Missing] : st \in FailureStatuses}
    \cup {[status |-> 429, body |-> NoBody, retryAfter |-> h] : h \in RetryAfterHeaders}

(* ------------------------------ behaviour ----------------------------- *)

\* The constructor (lines 10-36); the two settings come from the environment.
Init ==
    /\ now = StartClock
    /\ useAdsbLol \in BOOLEAN
    /\ aviationStackKey \in BOOLEAN
    /\ lastOpenSkyCall = 0
    /\ openSkyRetryAfter = 0
    /\ openSkyDisabledUntil = 0
    /\ op = "none"
    /\ pc = "idle"
    /\ endpoint = 0
    /\ callNow = 0
    /\ livePositions = <<>>
    /\ returned = Ok(<<>>)
    /\ callLog = <<>>
    /\ received = NothingReceived
    /\ gate = NoGate
    /\ last429 = No429
    /\ requestedAt = 0
    /\ second = NoSecond

\* Time passes.
Tick ==
    /\ pc # "done"
    /\ now + TickMs <= MaxClock
    /\ Becomes([State EXCEPT !.now = now + TickMs])

\* A caller invokes one of the four asynchronous methods.
Fresh(name) ==
    [State EXCEPT !.op = name, !.callLog = <<>>, !.returned = Ok(<<>>),
                  !.received = NothingReceived]

CallGetAllFlights ==
    /\ pc = "idle"
    /\ Becomes(getAllFlights_enter(Fresh("getAllFlights")))

CallGetAdsbLolFlights ==
    /\ pc = "idle"
    /\ Becomes(getAdsbLolFlights_enter(Fresh("getAdsbLolFlights")))

CallGetOpenSkyFlights ==
    /\ pc = "idle"
    /\ Becomes(getOpenSkyFlights_enter(Fresh("getOpenSkyFlights")))

CallGetAviationStackFlights ==
    /\ pc = "idle"
    /\ Becomes(getAviationStackFlights_enter(Fresh("getAviationStackFlights")))

\* A caller invokes one of the two synchronous methods.
CallCalculateDistance ==
    /\ pc = "idle"
    /\ \E d \in Distances : Becomes(calculateDistance(Fresh("calculateDistance"), d))

CallIsInAirportZone ==
    /\ pc = "idle"
    /\ \E d \in Distances : Becomes(isInAirportZone(Fresh("isInAirportZone"), d))

\* A pending request completes with one of the responses.
AdsbLolCompletes(bodies) ==
    /\ pc = "adsb"
    /\ \E resp \in Responses(bodies) : Becomes(getAdsbLolFlights_resume(State, resp))

OpenSkyCompletes(bodies) ==
    /\ pc = "opensky"
    /\ \E resp \in Responses(bodies) : Becomes(getOpenSkyFlights_resume(State, resp))

AviationStackCompletes(bodies) ==
    /\ pc = "aviationstack"
    /\ \E resp \in Responses(bodies) :
           Becomes(getAviationStackFlights_resume(State, resp))

AdsbLolResponds == AdsbLolCompletes(FewAdsbBodies)

OpenSkyResponds == OpenSkyCompletes(FewOpenSkyBodies)

AviationStackResponds == AviationStackCompletes(FewAviationStackBodies)

\* The caller takes the result; the client is idle again.
Return ==
    /\ pc = "done"
    /\ Becomes([State EXCEPT !.op = "none", !.pc = "idle", !.callNow = 0,
                             !.livePositions = <<>>, !.returned = Ok(<<>>),
                             !.callLog = <<>>, !.received = NothingReceived])

Next ==
    \/ Tick
    \/ CallGetAllFlights
    \/ CallGetAdsbLolFlights
    \/ CallGetOpenSkyFlights
    \/ CallGetAviationStackFlights
    \/ CallCalculateDistance
    \/ CallIsInAirportZone
    \/ AdsbLolResponds
    \/ OpenSkyResponds
    \/ AviationStackResponds
    \/ Return

Spec == Init /\ [][Next]_vars

\* The same client with the clock standing still and every sample body:
\* the behaviours that exercise the normalisation of the adapters.
AdsbLolRespondsAny == AdsbLolCompletes(AdsbBodies)

OpenSkyRespondsAny == OpenSkyCompletes(OpenSkyBodies)

AviationStackRespondsAny == AviationStackCompletes(AviationStackBodies)

NextData ==
    \/ CallGetAllFlights
    \/ CallGetAdsbLolFlights
    \/ CallGetOpenSkyFlights
    \/ CallGetAviationStackFlights
    \/ AdsbLolRespondsAny
    \/ OpenSkyRespondsAny
    \/ AviationStackRespondsAny
    \/ Return

SpecData == Init /\ [][NextData]_vars

(* ---------------------- interleaved invocations ----------------------- *)

\* The module exports one client (line 412): every caller shares its three
\* governor fields, and an invocation suspended at the await of line 208
\* lets another one begin.  A second invocation of getOpenSkyFlights runs
\* the same code on the same object, with locals of its own.
AsSecond(s) ==
    [s EXCEPT !.op = s.second.op, !.pc = s.second.pc, !.callNow = s.second.callNow,
              !.returned = s.second.returned, !.callLog = s.second.callLog]

\* The second invocation has taken a step to r: the object is as r has it,
\* the first invocation keeps its locals.
SecondBecomes(r, overlapped) ==
    Becomes([r EXCEPT !.op = op, !.pc = pc, !.callNow = callNow,
                      !.returned = returned, !.callLog = callLog,
                      !.received = received, !.gate = gate,
                      !.second = [op |-> r.op, pc |-> r.pc, callNow |-> r.callNow,
                                  returned |-> r.returned, callLog |-> r.callLog,
                                  overlapped |-> overlapped]])

\* The responses of the interleaved behaviours: a success without and with
\* a state vector, a timeout, a 429 without the header.
ConcResponses ==
    {r \in Responses(FewOpenSkyBodies) :
        r.status # 500 /\ r.retryAfter = Missing /\ Len(r.body.list) <= 1}

\* It begins; overlapped records that the first was awaiting its response.
SecondCalls ==
    /\ second.pc = "idle"
    /\ SecondBecomes(getOpenSkyFlights_enter(
                         [AsSecond(State) EXCEPT !.op = "getOpenSkyFlights"]),
                     pc = "opensky")

SecondResponds ==
    /\ second.pc = "opensky"
    /\ \E resp \in ConcResponses :
           SecondBecomes(getOpenSkyFlights_resume(AsSecond(State), resp),
                         second.overlapped)

SecondReturns ==
    /\ second.pc = "done"
    /\ Becomes([State EXCEPT !.second = NoSecond])

FirstResponds ==
    /\ pc = "opensky"
    /\ \E resp \in ConcResponses : Becomes(getOpenSkyFlights_resume(State, resp))

TickConc == second.pc # "done" /\ Tick

NextConc ==
    \/ TickConc
    \/ CallGetOpenSkyFlights
    \/ FirstResponds
    \/ Return
    \/ SecondCalls
    \/ SecondResponds
    \/ SecondReturns

SpecConc == Init /\ [][NextConc]_vars

(* ------------------------ the governor over time ----------------------- *)

\* getOpenSkyFlights alone, over a clock long enough for an open circuit
\* (more than 300 s) to close again, in coarser steps of time.
GovTickMs == 20000
MaxGovClock == 410000

\* x-rate-limit-retry-after-seconds values of these behaviours: none, a
\* short wait, one above the threshold of line 248.
GovHeaders == {Num(0), Num(30), Num(301)}

\* A success without state vectors, a timeout, a 429.
GovResponses ==
    {[status |-> 200, body |-> [kind |-> "nostates", list |-> <<>>],
      retryAfter |-> Missing],
     [status |-> 0, body |-> NoBody, retryAfter |-> Missing]}
    \cup {[status |-> 429, body |-> NoBody, retryAfter |-> h] : h \in GovHeaders}

TickGov ==
    /\ pc # "done"
    /\ now + GovTickMs <= MaxGovClock
    /\ Becomes([State EXCEPT !.now = now + GovTickMs])

OpenSkyRespondsGov ==
    /\ pc = "opensky"
    /\ \E resp \in GovResponses : Becomes(getOpenSkyFlights_resume(State, resp))

NextGov ==
    \/ TickGov
    \/ CallGetOpenSkyFlights
    \/ OpenSkyRespondsGov
    \/ Return

SpecGov == Init /\ [][NextGov]_vars

(* ------------------------------- claims ------------------------------- *)

ADSB == "getAdsbLolFlights"
OPENSKY == "getOpenSkyFlights"
AVIATIONSTACK == "getAviationStackFlights"

\* How often the running invocation has called an adapter.
Calls(fn) == Cardinality({i \in DOMAIN callLog : callLog[i].fn = fn})

\* The running invocation is a getAllFlights cycle that has returned.
CycleDone == op = "getAllFlights" /\ pc = "done"

\* C1: in a getAllFlights cycle with the primary feed preferred, the
\* fallback adapter getOpenSkyFlights has been called exactly once as soon
\* as getAdsbLolFlights has returned an empty list, and is not called at
\* all when getAdsbLolFlights returns a record (nor before it returns).
C1_FallbackOnceIffPrimaryEmpty ==
    (op = "getAllFlights" /\ useAdsbLol) =>
        /\ Calls(ADSB) = 1
        /\ callLog[1].fn = ADSB
        /\ Calls(OPENSKY) =
             IF callLog[1].returned /\ callLog[1].value = <<>> THEN 1 ELSE 0

C1_Witness ==
    /\ CycleDone /\ useAdsbLol
    /\ callLog[1].value = <<>>
    /\ Calls(OPENSKY) = 1
    /\ callLog[2].requests = <<1>>
    /\ returned.value.livePositions # <<>>

\* The feed whose adapter produced the livePositions of the cycle.
Producer ==
    LET last == CHOOSE i \in DOMAIN callLog :
                    /\ callLog[i].fn \in {ADSB, OPENSKY}
                    /\ \A j \in DOMAIN callLog :
                          callLog[j].fn \in {ADSB, OPENSKY} => j <= i
    IN  IF callLog[last].value = <<>> THEN "None"
        ELSE IF callLog[last].fn = ADSB THEN "ADSB.lol" ELSE "OpenSky"

\* C2: the source field of the envelope names the feed that produced
\* livePositions: ADSB.lol when the primary adapter returned records,
\* OpenSky when the fallback adapter did, None when there are none.
C2_SourceNamesProducer ==
    CycleDone => returned.value.source = Producer

\* C3: while the last OpenSky response is a 429 with retry-after 30 received
\* at time t, an invocation earlier than t + 30 s is rejected and issues no
\* request, and an invocation later than t + 30 s passes the gate and
\* issues one.
C3_RetryAfter30 ==
    (last429.seconds = 30 /\ gate.verdict # "none") =>
        /\ gate.at < last429.at + 30000 =>
              gate.verdict \in {"disabled", "retry"} /\ pc # "opensky"
        /\ gate.at > last429.at + 30000 =>
              /\ gate.verdict = "pass"
              /\ pc = "opensky"
              /\ callLog[Len(callLog)].fn = OPENSKY
              /\ callLog[Len(callLog)].requests = <<1>>

C3_Witness ==
    /\ last429.seconds = 30
    /\ gate.verdict = "pass"
    /\ gate.at > last429.at + 30000
    /\ pc = "opensky"

\* C4: while the last OpenSky response is a 429 with retry-after s > 300
\* received at time t, openSkyDisabledUntil = openSkyRetryAfter = t + s*1000
\* and every invocation before that time is rejected and issues no request,
\* however long ago the last call was.
C4_CircuitOpen ==
    last429.seconds > DisableThresholdSeconds =>
        /\ openSkyRetryAfter = last429.at + last429.seconds * 1000
        /\ openSkyDisabledUntil = openSkyRetryAfter
        /\ (gate.verdict # "none" /\ gate.at < openSkyDisabledUntil) =>
              gate.verdict = "disabled" /\ pc # "opensky"

C4_Witness ==
    /\ last429.seconds = 600
    /\ gate.verdict = "disabled"
    /\ gate.at - lastOpenSkyCall > openSkyMinInterval
    /\ lastOpenSkyCall > 0
    /\ op = OPENSKY /\ pc = "done"
    /\ returned = Ok(<<>>)
    /\ callLog[1].requests = <<>>

\* A position record with both coordinates present and in range.
ValidCoordinates(r) ==
    /\ r.latitude # Missing /\ r.longitude # Missing
    /\ Abs(r.latitude[1]) <= 9000
    /\ Abs(r.longitude[1]) <= 18000

AllValid(positions) == \A k \in DOMAIN positions : ValidCoordinates(positions[k])

\* C5: every record returned by getAdsbLolFlights or getOpenSkyFlights, and
\* so every element of the livePositions of an envelope, has a latitude and
\* a longitude, with |latitude| <= 90 and |longitude| <= 180.
C5_EmittedCoordinatesValid ==
    /\ \A i \in DOMAIN callLog :
          callLog[i].fn \in {ADSB, OPENSKY} => AllValid(callLog[i].value)
    /\ CycleDone => AllValid(returned.value.livePositions)

\* C6: whatever the three sources answer (success, no response, non-2xx,
\* 429, a body with missing or wrongly-typed fields), no adapter throws and
\* getAllFlights returns an envelope instead of throwing.
C6_NeverThrows ==
    /\ \A i \in DOMAIN callLog : ~callLog[i].threw
    /\ pc = "done" => ~returned.thrown
    /\ CycleDone =>
          /\ returned.value.livePositions = livePositions
          /\ returned.value.totalLive = Len(livePositions)

C6_Witness ==
    /\ CycleDone
    /\ Len(callLog) = 3
    /\ \A i \in 1..3 : callLog[i].caught /\ callLog[i].requests # <<>>
    /\ received.status = 200
    /\ ~returned.thrown

\* The entries of a batch that are objects.
Objects(list) == SelectSeq(list, LAMBDA e : e.obj)

\* A batch with exactly one malformed entry among at least one other.
OneMalformed(list, Malformed(_)) ==
    /\ Len(list) >= 2
    /\ Cardinality({k \in DOMAIN list : Malformed(list[k])}) = 1

\* C7: when one entry of a batch is malformed (a null position entry, a
\* schedule entry without a nested flight, airline, departure or arrival
\* object) and the others are well formed, the adapter returns the
\* normalised well-formed entries.
C7_OnlyMalformedRecordDropped ==
    (/\ received.by > 0
     /\ received.status = 200
     /\ callLog[received.by].returned
     /\ received.body.kind \in {"array", "ac", "states", "data"}) =>
        LET list == received.body.list
            out == callLog[received.by].value
            fn == callLog[received.by].fn
        IN  /\ (/\ fn = ADSB
                /\ OneMalformed(list, LAMBDA e : ~e.obj)
                /\ \A k \in DOMAIN list : list[k].flight # "number")
               => out = MapSeq(SelectSeq(Objects(list), adsbFilter), adsbMap)
            /\ (/\ fn = OPENSKY
                /\ OneMalformed(list, LAMBDA e : ~e.obj)
                /\ \A k \in DOMAIN list : list[k].callsign # "number")
               => out = MapSeq(Objects(list), openSkyMap)
            /\ (fn = AVIATIONSTACK /\ OneMalformed(list, aviationStackThrows))
               => out = MapSeq(SelectSeq(list, LAMBDA e : ~aviationStackThrows(e)),
                               aviationStackMap)

\* C8: without an AviationStack key, getAviationStackFlights returns [] and
\* issues no request, in every invocation and every governor state.
C8_NoKeyNoRequest ==
    ~aviationStackKey =>
        /\ pc # "aviationstack"
        /\ \A i \in DOMAIN callLog :
              callLog[i].fn = AVIATIONSTACK =>
                  /\ callLog[i].requests = <<>>
                  /\ callLog[i].returned
                  /\ callLog[i].value = <<>>

C8_Witness ==
    /\ ~aviationStackKey
    /\ op = AVIATIONSTACK /\ pc = "done"
    /\ returned = Ok(<<>>)
    /\ callLog[1].requests = <<>>
    /\ last429.seconds = 600
    /\ now < openSkyDisabledUntil

\* C9: in a getAllFlights cycle the schedule adapter is called exactly once,
\* after every position adapter of the cycle has returned, whether or not
\* they returned records; and the livePositions of the envelope is the
\* result of the position fetch whatever the schedule adapter does.
C9_ScheduleOnceAfterPositions ==
    op = "getAllFlights" =>
        /\ \A i \in DOMAIN callLog :
              callLog[i].fn = AVIATIONSTACK =>
                  /\ i = Len(callLog) /\ i > 1
                  /\ \A j \in 1..(i - 1) :
                        callLog[j].returned /\ callLog[j].fn \in {ADSB, OPENSKY}
        /\ pc \in {"adsb", "opensky"} => Calls(AVIATIONSTACK) = 0
        /\ pc \in {"aviationstack", "done"} =>
              /\ Calls(AVIATIONSTACK) = 1
              /\ livePositions = callLog[Len(callLog) - 1].value
        /\ pc = "done" =>
              /\ ~returned.thrown
              /\ returned.value.livePositions = callLog[Len(callLog) - 1].value
              /\ returned.value.schedules = callLog[Len(callLog)].value

C9_Witness ==
    /\ CycleDone
    /\ callLog[Len(callLog)].fn = AVIATIONSTACK
    /\ callLog[Len(callLog)].caught
    /\ returned.value.livePositions # <<>>
    /\ returned.value.schedules = <<>>
    /\ Calls(OPENSKY) = 1

\* The altitude and on_ground of an entry as the claim words them: from
\* alt_baro when it is there, otherwise from alt_geom, otherwise 0.
ClaimedAltitude(aircraft) ==
    IF aircraft.alt_baro # Missing THEN aircraft.alt_baro[1] * FeetPerMeterE5
    ELSE IF aircraft.alt_geom # Missing THEN aircraft.alt_geom[1] * FeetPerMeterE5
    ELSE 0

ClaimedOnGround(aircraft) ==
    \/ (aircraft.alt_baro # Missing /\ aircraft.alt_baro[1] < 100)
    \/ (aircraft.alt_geom # Missing /\ aircraft.alt_geom[1] < 100)

\* C10: for every ADSB.lol entry that passes the coordinate validation, the
\* emitted on_ground is true iff alt_baro < 100 or alt_geom < 100, and the
\* emitted altitude is alt_baro in feet when alt_baro is present, otherwise
\* alt_geom in feet, otherwise 0.
C10_AltitudeAndOnGround ==
    (/\ received.by > 0
     /\ received.status = 200
     /\ callLog[received.by].fn = ADSB
     /\ callLog[received.by].returned
     /\ ~callLog[received.by].caught
     /\ received.body.kind \in {"array", "ac"}) =>
        LET kept == SelectSeq(received.body.list, adsbFilter)
            out == callLog[received.by].value
        IN  /\ Len(out) = Len(kept)
            /\ \A k \in DOMAIN out :
                  /\ out[k].on_ground = ClaimedOnGround(kept[k])
                  /\ out[k].altitude = ClaimedAltitude(kept[k])

\* The latest response came to getOpenSkyFlights.
OpenSkyAnswered == received.by > 0 /\ callLog[received.by].fn = OPENSKY

\* C11: once the request of an allowed getOpenSkyFlights attempt has
\* completed (with a success, a 429 or any other failure), lastOpenSkyCall
\* is the time of that attempt.
C11_LastCallSetOnCompletion ==
    OpenSkyAnswered => lastOpenSkyCall = callNow

\* A step in which the pending OpenSky request completes.
OpenSkyCompletion == pc = "opensky" /\ now' = now /\ received'.by = Len(callLog)

\* C12: a 429 received at time t sets openSkyRetryAfter to t + s*1000, s
\* being the retry-after header or 60 without one, and sets
\* openSkyDisabledUntil to the same time iff s > 300; a failure other than
\* a 429 leaves both fields as they were.
C12_BackoffOn429 ==
    [][OpenSkyCompletion =>
          LET h == received'.retryAfter
              s == IF h = Missing THEN 60 ELSE h[1]
          IN  /\ received'.status = 429 =>
                    /\ openSkyRetryAfter' = now + s * 1000
                    /\ openSkyDisabledUntil' =
                          IF s > 300 THEN openSkyRetryAfter' ELSE openSkyDisabledUntil
              /\ received'.status \in FailureStatuses =>
                    UNCHANGED <<openSkyRetryAfter, openSkyDisabledUntil>>]_vars

C12_Witness ==
    /\ OpenSkyAnswered
    /\ received.status = 429
    /\ received.retryAfter = Num(300)
    /\ openSkyRetryAfter = now + 300000
    /\ openSkyDisabledUntil = 0
    /\ lastOpenSkyCall > 0

\* How often a log holds a call of an adapter.
CallsIn(log, fn) == Cardinality({i \in DOMAIN log : log[i].fn = fn})

\* A step in which getOpenSkyFlights is called.
OpenSkyInvocation == CallsIn(callLog', OPENSKY) > CallsIn(callLog, OPENSKY)

\* C13: a getOpenSkyFlights call made while now < openSkyDisabledUntil, or
\* now < openSkyRetryAfter, or now - lastOpenSkyCall < openSkyMinInterval
\* returns [] without a request and leaves lastOpenSkyCall,
\* openSkyRetryAfter and openSkyDisabledUntil as they were.
C13_RejectionChangesNothing ==
    [][(/\ OpenSkyInvocation
        /\ \/ now < openSkyDisabledUntil
           \/ now < openSkyRetryAfter
           \/ now - lastOpenSkyCall < openSkyMinInterval) =>
          LET i == CHOOSE k \in DOMAIN callLog' : callLog'[k].fn = OPENSKY IN
          /\ callLog'[i].returned
          /\ callLog'[i].value = <<>>
          /\ callLog'[i].requests = <<>>
          /\ ~callLog'[i].threw
          /\ pc' # "opensky"
          /\ UNCHANGED <<lastOpenSkyCall, openSkyRetryAfter, openSkyDisabledUntil>>]_vars

C13_Witness ==
    /\ op = OPENSKY /\ pc = "done"
    /\ gate.verdict = "interval"
    /\ now - lastOpenSkyCall < openSkyMinInterval
    /\ now >= openSkyRetryAfter
    /\ callLog[1].requests = <<>>
    /\ returned = Ok(<<>>)

\* A step in which getOpenSkyFlights starts a network request.
OpenSkyRequestStarts == pc # "opensky" /\ pc' = "opensky"

\* C14: any two network requests of getOpenSkyFlights are started at least
\* openSkyMinInterval apart, whatever the outcome of the earlier one.
C14_RequestsMinIntervalApart ==
    [][(OpenSkyRequestStarts /\ requestedAt > 0) =>
          now - requestedAt >= openSkyMinInterval]_vars

\* C15 as stated: a second getOpenSkyFlights invocation that begins while
\* the first is awaiting its response is rejected by the gate and issues no
\* request, so at most one OpenSky request is in flight at any time.
C15_AtMostOneInFlight ==
    /\ ~(pc = "opensky" /\ second.pc = "opensky")
    /\ second.overlapped => second.callLog[1].requests = <<>>

\* A step in which the second invocation begins while the first is awaiting.
SecondOverlaps == pc = "opensky" /\ second.pc = "idle" /\ second'.pc # "idle"

\* A step in which an invocation passes the gate and starts its request.
RequestStarts ==
    \/ pc # "opensky" /\ pc' = "opensky"
    \/ second.pc # "opensky" /\ second'.pc = "opensky"

\* C15, amended: getOpenSkyFlights writes nothing to the governor between
\* its gate check and the completion of its request, so a second invocation
\* that begins while the first is awaiting is decided on the three fields
\* as they stand: it is rejected exactly when one of the three gate
\* conditions holds at its start, and otherwise issues its own request
\* (two requests can then be in flight at once).
C15_SecondDecidedOnFieldsAlone ==
    [][/\ RequestStarts =>
              UNCHANGED <<lastOpenSkyCall, openSkyRetryAfter, openSkyDisabledUntil>>
       /\ SecondOverlaps =>
              LET blocked == \/ now < openSkyDisabledUntil
                             \/ now < openSkyRetryAfter
                             \/ now - lastOpenSkyCall < openSkyMinInterval
              IN  /\ second'.overlapped
                  /\ pc' = "opensky"
                  /\ blocked => /\ second'.pc = "done"
                                /\ second'.callLog[1].requests = <<>>
                                /\ second'.returned = Ok(<<>>)
                  /\ ~blocked => /\ second'.pc = "opensky"
                                 /\ second'.callLog[1].requests = <<1>>]_vars

\* Both invocations have a request in flight, the second begun during the
\* first's wait.
C15_Witness ==
    /\ pc = "opensky" /\ second.pc = "opensky" /\ second.overlapped
    /\ callLog[1].requests = <<1>> /\ second.callLog[1].requests = <<1>>

GovernorUnchanged ==
    UNCHANGED <<lastOpenSkyCall, openSkyRetryAfter, openSkyDisabledUntil>>

\* C16: the three governor fields are changed only by getOpenSkyFlights
\* (in the step that completes its request); steps of getAdsbLolFlights,
\* getAviationStackFlights, calculateDistance and isInAirportZone leave
\* them unchanged, and so does every step of a getAllFlights cycle in which
\* the primary adapter returns data (getOpenSkyFlights is then not called).
C16_GovernorFrame ==
    [][/\ ~GovernorUnchanged =>
              /\ pc = "opensky" /\ received'.by > 0
              /\ callLog'[received'.by].fn = OPENSKY
       /\ op' \in {ADSB, AVIATIONSTACK, "calculateDistance", "isInAirportZone"} =>
              GovernorUnchanged
       /\ (/\ op' = "getAllFlights"
           /\ \/ CallsIn(callLog', OPENSKY) = 0
              \/ /\ callLog'[1].fn = ADSB
                 /\ callLog'[1].returned /\ callLog'[1].value # <<>>) =>
              GovernorUnchanged]_vars

\* A cycle served by the primary feed has returned, and the governor still
\* holds what earlier getOpenSkyFlights calls left in it.
C16_Witness ==
    /\ CycleDone /\ callLog[1].fn = ADSB /\ callLog[1].value # <<>>
    /\ Calls(OPENSKY) = 0
    /\ lastOpenSkyCall > 0 /\ openSkyRetryAfter > now /\ openSkyDisabledUntil > now

\* A step in which a pending ADSB.lol request completes.
AdsbCompletion == pc = "adsb" /\ now' = now

\* C17: getAdsbLolFlights requests its endpoints in list order, each at
\* most once; a success ends the invocation with no further request, a
\* failure of an endpoint that is not the last is followed by the request
\* of the next one, and a failure of the last one makes the adapter return
\* [] without throwing.
C17_EndpointsInOrder ==
    [][AdsbCompletion =>
          LET before == callLog[1]
              after == callLog'[1]
              ok == received'.status = 200
          IN  /\ before.fn = ADSB /\ received'.by = 1
              /\ before.requests = [k \in 1..endpoint |-> k]
              /\ ok => after.requests = before.requests /\ after.returned
              /\ (~ok /\ endpoint < NumEndpoints) =>
                     /\ after.requests = Append(before.requests, endpoint + 1)
                     /\ ~after.returned /\ pc' = "adsb"
              /\ (~ok /\ endpoint = NumEndpoints) =>
                     /\ after.requests = before.requests
                     /\ after.returned /\ after.value = <<>> /\ ~after.threw]_vars

\* The first endpoint failed and the second one answered with aircraft.
C17_Witness ==
    /\ callLog # <<>> /\ callLog[1].fn = ADSB
    /\ callLog[1].requests = <<1, 2>> /\ callLog[1].returned
    /\ callLog[1].value # <<>> /\ received.status = 200

\* C18: with useAdsbLol false a getAllFlights cycle never calls
\* getAdsbLolFlights and calls getOpenSkyFlights exactly once (first);
\* livePositions of the envelope is what that call returned.
C18_FallbackOnlyWhenNotPreferred ==
    (op = "getAllFlights" /\ ~useAdsbLol) =>
        /\ Calls(ADSB) = 0
        /\ Calls(OPENSKY) = 1
        /\ callLog[1].fn = OPENSKY
        /\ pc = "done" =>
               /\ ~returned.thrown
               /\ returned.value.livePositions = callLog[1].value

C18_Witness ==
    /\ CycleDone /\ ~useAdsbLol /\ Calls(ADSB) = 0
    /\ callLog[1].requests = <<1>>
    /\ Len(returned.value.livePositions) = 1

\* C19: every envelope getAllFlights returns has totalLive = length of
\* livePositions and totalScheduled = length of schedules, and its source
\* is "None" exactly when livePositions is empty.
C19_EnvelopeTotals ==
    (CycleDone /\ ~returned.thrown) =>
        LET e == returned.value IN
        /\ e.totalLive = Len(e.livePositions)
        /\ e.totalScheduled = Len(e.schedules)
        /\ e.source = "None" <=> e.livePositions = <<>>

C19_Witness ==
    /\ CycleDone /\ ~returned.thrown
    /\ Len(returned.value.livePositions) = 1 /\ returned.value.totalLive = 1
    /\ Len(returned.value.schedules) = 2 /\ returned.value.totalScheduled = 2
    /\ returned.value.source # "None"

\* The network requests of the running invocation.
RECURSIVE RequestCount(_)
RequestCount(log) ==
    IF log = <<>> THEN 0 ELSE Len(Head(log).requests) + RequestCount(Tail(log))

\* C20: no adapter retries: an invocation of getOpenSkyFlights or of
\* getAviationStackFlights issues at most one request, one of
\* getAdsbLolFlights at most one per endpoint, and a getAllFlights cycle at
\* most four in all.
C20_NoRetry ==
    /\ \A i \in DOMAIN callLog :
          /\ callLog[i].fn \in {OPENSKY, AVIATIONSTACK} => Len(callLog[i].requests) <= 1
          /\ callLog[i].fn = ADSB =>
                 /\ Len(callLog[i].requests) <= NumEndpoints
                 /\ \A j, k \in DOMAIN callLog[i].requests :
                        callLog[i].requests[j] = callLog[i].requests[k] => j = k
    /\ op = "getAllFlights" => RequestCount(callLog) <= 4

\* A cycle that used every request it may: both endpoints of the primary
\* feed, the fallback, the schedules.
C20_Witness ==
    /\ CycleDone /\ RequestCount(callLog) = 4
    /\ received.status # 200

\* A raw ADSB.lol entry with both coordinates present and in range.
InRange(aircraft) ==
    /\ aircraft.lat # Missing /\ aircraft.lon # Missing
    /\ Abs(aircraft.lat[1]) <= 9000 /\ Abs(aircraft.lon[1]) <= 18000

\* getAdsbLolFlights has returned after a 200 whose batch holds only
\* objects with a well-typed flight.
AdsbBatchReturned ==
    /\ callLog # <<>> /\ callLog[1].fn = ADSB /\ callLog[1].returned
    /\ received.by = 1 /\ received.status = 200
    /\ received.body.kind \in {"array", "ac"}
    /\ \A k \in DOMAIN received.body.list :
          received.body.list[k].obj /\ received.body.list[k].flight # "number"

\* C23: getAdsbLolFlights emits a record for every raw entry whose latitude
\* and longitude are present and within range, those at exactly 0 included,
\* and drops only the entries with missing or out-of-range coordinates.
C23_InRangeEntriesEmitted ==
    AdsbBatchReturned =>
        LET kept == SelectSeq(received.body.list, InRange) IN
        /\ Len(callLog[1].value) = Len(kept)
        /\ \A k \in DOMAIN kept :
              /\ callLog[1].value[k].latitude = kept[k].lat
              /\ callLog[1].value[k].longitude = kept[k].lon

\* C21: under serialized invocations and non-negative retry-after values
\* openSkyDisabledUntil <= openSkyRetryAfter in every reachable state, and
\* neither field ever decreases; so whenever the circuit-open check would
\* block, the retry-wait check would too.
C21_DisabledWithinRetryAfter ==
    [][/\ openSkyDisabledUntil <= openSkyRetryAfter
       /\ openSkyDisabledUntil' <= openSkyRetryAfter'
       /\ openSkyRetryAfter' >= openSkyRetryAfter
       /\ openSkyDisabledUntil' >= openSkyDisabledUntil
       /\ now < openSkyDisabledUntil => now < openSkyRetryAfter]_vars

\* The circuit was opened by a 429 and, after it closed, a later 429 moved
\* the retry time further on.
C21_Witness ==
    /\ openSkyDisabledUntil > 0
    /\ openSkyRetryAfter > openSkyDisabledUntil
    /\ last429.at >= openSkyDisabledUntil
    /\ pc = "done" /\ op = OPENSKY

\* The clock has reached every time the governor asks to wait for.
WaitsOver ==
    /\ now >= openSkyDisabledUntil
    /\ now >= openSkyRetryAfter
    /\ now >= lastOpenSkyCall + openSkyMinInterval

\* C22: the governor never blocks for good: a getOpenSkyFlights call made
\* once the clock has passed openSkyDisabledUntil, openSkyRetryAfter and
\* lastOpenSkyCall + openSkyMinInterval passes the gate and issues a
\* network request; the first call after construction is such a call.
C22_PassesOnceWaitsAreOver ==
    [][(OpenSkyInvocation /\ (WaitsOver \/ requestedAt = 0)) =>
          /\ pc' = "opensky"
          /\ gate'.verdict = "pass"
          /\ callLog'[Len(callLog')].fn = OPENSKY
          /\ callLog'[Len(callLog')].requests = <<1>>
          /\ requestedAt' = now]_vars

\* A call passes after an open circuit has closed again.
C22_Witness ==
    /\ pc = "opensky" /\ gate.verdict = "pass" /\ requestedAt = now
    /\ openSkyDisabledUntil > 0 /\ now >= openSkyDisabledUntil
    /\ lastOpenSkyCall > 0

====
